---- MODULE Spec2Model ----
(***************************************************************************)
(* Model of the LRU cache of cache_lru (src/src/cache/cache_impl.rs):      *)
(* a HashMap<K, (V, Node<K>)> whose entries carry the prev/next keys of a  *)
(* recency list, plus head (most recently used) and tail (least recently   *)
(* used).  K = String and V = i32, as in the tests and in main.rs.         *)
(***************************************************************************)
EXTENDS Integers, Sequences, FiniteSets, TLC

\* ------------------------------------------------------------------ bounds

\* Number of distinct keys the callers use.
NumKeys == 3
\* Number of distinct values the callers use.
NumVals == 2
\* Largest capacity a cache is constructed with (0 is included).
MaxCap == 2
\* Number of calls made on one cache.
MaxOps == 5
\* Number of calls made on the persistent caches of one run.
MaxPersistOps == 2

\* ---------------------------------------------------------- keys and values

\* Characters a key is made of: two letters, the line end, the field separator.
TAB == "\t"
NL == "\n"
Alphabet == <<"a", "b", NL, TAB>>

\* The n-th non-empty string over Alphabet, shortest first: a String key.
RECURSIVE KeyOf(_)
KeyOf(n) ==
    IF n = 0 THEN <<>>
    ELSE LET d == ((n - 1) % Len(Alphabet)) + 1
         IN  Append(KeyOf((n - d) \div Len(Alphabet)), Alphabet[d])

Keys == {KeyOf(n) : n \in 1..NumKeys}
Vals == 1..NumVals
Caps == 0..MaxCap

\* Option<T>: None is the empty sequence, Some(x) the one-element sequence.
None == <<>>
Some(x) == <<x>>

\* Node { prev: None, next: None } paired with a value: a fresh map entry.
NewEntry(value) == [value |-> value, prev |-> None, next |-> None]

\* --------------------------------------------------------------- the state

VARIABLES
    live,         \* whether the cache object exists (constructed and not dropped)
    capacity,     \* Cache.capacity
    map,          \* Cache.map: key -> [value, prev, next]
    head,         \* Cache.head: Option<K>
    tail,         \* Cache.tail: Option<K>
    filename,     \* Cache.filename: Option<String>
    file,         \* the file at the path: None when there is none, else Some(text)
    lastOp,       \* history: the last call, its arguments and its result
    accessOrder,  \* history: the keys held, by last successful get or put, oldest first
    lastPut,      \* history: the value of the latest put of each key held
    fresh,        \* history: every call so far was a put of a key not put before
    freshPuts,    \* history: while fresh, the <<key, value>> pairs put so far, in order
    nops,         \* history: the number of calls made so far
    life,         \* history: how this cache was constructed and whether its saves succeeded
    prior,        \* history: until the next call, the cache dropped last as it was then
    ref,          \* the reference LRU run side by side: <<key, value>>, oldest first
    run,          \* history: whether every put so far was of a key not held then,
                  \* and the keys the last call removed
    source        \* history: until the next call, what the last new_persistent met

cache == [map |-> map, head |-> head, tail |-> tail]
history == [accessOrder |-> accessOrder, lastPut |-> lastPut]
vars == <<live, capacity, map, head, tail, filename, file, lastOp, accessOrder,
          lastPut, fresh, freshPuts, nops, life, prior, ref, run, source>>

\* ------------------------------------------------------ HashMap operations

contains_key(m, key) == key \in DOMAIN m
map_remove(m, key) == [k \in DOMAIN m \ {key} |-> m[k]]
map_insert(m, key, entry) ==
    [k \in DOMAIN m \cup {key} |-> IF k = key THEN entry ELSE m[k]]
\* if let Some((_, node)) = map.get_mut(&key) { node.prev = p }
set_prev(m, key, p) ==
    IF key \in DOMAIN m THEN [m EXCEPT ![key].prev = p] ELSE m
\* if let Some((_, node)) = map.get_mut(&key) { node.next = n }
set_next(m, key, n) ==
    IF key \in DOMAIN m THEN [m EXCEPT ![key].next = n] ELSE m

\* ------------------------------------------------------ the list operations

\* Cache::remove_node: unlink key from the recency list; nothing happens when
\* the key is not in the map.
remove_node(c, key) ==
    IF ~contains_key(c.map, key) THEN c
    ELSE LET prev == c.map[key].prev
             next == c.map[key].next
         IN  CASE prev # None /\ next # None ->
                    [c EXCEPT !.map = set_prev(set_next(c.map, prev[1], next),
                                               next[1], prev)]
               [] prev = None /\ next # None ->
                    [c EXCEPT !.head = next,
                              !.map = set_prev(c.map, next[1], None)]
               [] prev # None /\ next = None ->
                    [c EXCEPT !.tail = prev,
                              !.map = set_next(c.map, prev[1], None)]
               [] OTHER ->
                    [c EXCEPT !.head = None, !.tail = None]

\* A remove_tail that drops the head key (the most recently used) instead.
remove_tail_drops_head(c) ==
    IF c.head = None THEN c
    ELSE LET head_key == c.head[1]
             c1 == remove_node(c, head_key)
         IN  [c1 EXCEPT !.map = map_remove(c1.map, head_key)]

\* Cache::remove_tail: unlink the tail key and drop its entry.
remove_tail(c) ==
    IF c.tail = None THEN c
    ELSE LET tail_key == c.tail[1]
             c1 == remove_node(c, tail_key)
         IN  [c1 EXCEPT !.map = map_remove(c1.map, tail_key)]

\* Cache::add_to_head: link key in front of the current head.
add_to_head(c, key) ==
    LET c1 == IF c.head # None
              THEN [c EXCEPT !.map = set_prev(c.map, c.head[1], Some(key))]
              ELSE [c EXCEPT !.tail = Some(key)]
        m2 == set_prev(set_next(c1.map, key, c1.head), key, None)
    IN  [c1 EXCEPT !.map = m2, !.head = Some(key)]

\* A move_to_head that would leave the list as it is.
move_to_head_stays(c, key) == c

\* Cache::move_to_head: unlink and relink in front, unless already the head.
move_to_head(c, key) ==
    IF c.head # Some(key) THEN add_to_head(remove_node(c, key), key) ELSE c

\* ------------------------------------------------------------- put and get

\* A put that keeps the old value when the key is already present.
put_keeps_old_value(c, cap, key, value) ==
    LET old == IF contains_key(c.map, key) THEN c.map[key].value ELSE value
        c1 == IF contains_key(c.map, key)
              THEN remove_node([c EXCEPT !.map = map_remove(c.map, key)], key)
              ELSE IF Cardinality(DOMAIN c.map) = cap
                   THEN remove_tail(c)
                   ELSE c
        c2 == [c1 EXCEPT !.map = map_insert(c1.map, key, NewEntry(old))]
    IN  add_to_head(c2, key)

\* A put that checks the capacity before it checks whether the key is present,
\* and so evicts on an update of a full cache.
put_evicts_on_update(c, cap, key, value) ==
    LET c1 == IF Cardinality(DOMAIN c.map) = cap
              THEN remove_tail(c)
              ELSE c
        c2 == IF contains_key(c1.map, key)
              THEN remove_node([c1 EXCEPT !.map = map_remove(c1.map, key)], key)
              ELSE c1
        c3 == [c2 EXCEPT !.map = map_insert(c2.map, key, NewEntry(value))]
    IN  add_to_head(c3, key)

\* LRUCache::put up to the save that ends it (save_after_put, in Put).
put(c, cap, key, value) ==
    LET c1 == IF contains_key(c.map, key)
              THEN remove_node([c EXCEPT !.map = map_remove(c.map, key)], key)
              ELSE IF Cardinality(DOMAIN c.map) = cap
                   THEN remove_tail(c)
                   ELSE c
        c2 == [c1 EXCEPT !.map = map_insert(c1.map, key, NewEntry(value))]
    IN  add_to_head(c2, key)

\* A get that moves the key to the head without checking that it is present.
get_moves_absent_key(c, key) ==
    LET c1 == move_to_head(c, key)
    IN  [cache |-> c1,
         ret |-> IF contains_key(c1.map, key)
                 THEN Some(c1.map[key].value) ELSE None]

\* A get that would return the value and leave the list as it is.
get_without_promotion(c, key) ==
    [cache |-> c,
     ret |-> IF contains_key(c.map, key) THEN Some(c.map[key].value) ELSE None]

\* LRUCache::get: the cache afterwards and the value returned.
get(c, key) ==
    IF contains_key(c.map, key)
    THEN LET c1 == move_to_head(c, key)
         IN  [cache |-> c1,
              ret |-> IF contains_key(c1.map, key)
                      THEN Some(c1.map[key].value) ELSE None]
    ELSE [cache |-> c, ret |-> None]

\* ------------------------------------------------------------ the file

\* Display for i32 (values here are not negative): the decimal digits.
Digit == <<"0", "1", "2", "3", "4", "5", "6", "7", "8", "9">>
RECURSIVE Digits(_)
Digits(n) ==
    IF n < 10 THEN <<Digit[n + 1]>>
    ELSE Append(Digits(n \div 10), Digit[(n % 10) + 1])

\* The value of a digit character, -1 for any other character.
DigitValue(ch) ==
    IF \E d \in 1..10 : Digit[d] = ch
    THEN (CHOOSE d \in 1..10 : Digit[d] = ch) - 1
    ELSE -1

I32Max == 2147483647

\* i32::from_str on an unsigned text: None for an empty text, a character
\* that is no digit, or a number above i32::MAX; else Some(number).
RECURSIVE ParseDigits(_, _)
ParseDigits(text, acc) ==
    IF text = <<>> THEN Some(acc)
    ELSE LET d == DigitValue(Head(text))
         IN  IF d < 0 \/ acc * 10 + d > I32Max THEN None
             ELSE ParseDigits(Tail(text), acc * 10 + d)
ParseValue(text) == IF text = <<>> THEN None ELSE ParseDigits(text, 0)

\* String::from_str never fails and keeps the text.
ParseKey(text) == Some(text)

\* A line written with write! instead of writeln!: no line end.
Line_without_end(key, value) == key \o <<TAB>> \o Digits(value)

\* writeln!(file, "{}\t{}", key, value): one line of the file, with its end.
Line(key, value) == key \o <<TAB>> \o Digits(value) \o <<NL>>

\* str::split(sep): the fields between the separators, at least one.
RECURSIVE SplitOn(_, _)
SplitOn(text, sep) ==
    IF \A i \in 1..Len(text) : text[i] # sep THEN <<text>>
    ELSE LET i == CHOOSE j \in 1..Len(text) :
                     text[j] = sep /\ \A h \in 1..(j - 1) : text[h] # sep
         IN  <<SubSeq(text, 1, i - 1)>> \o SplitOn(SubSeq(text, i + 1, Len(text)), sep)

\* BufRead::lines: the text cut at each line end; what follows the last line
\* end is a line only when it is not empty.
Lines(text) ==
    LET parts == SplitOn(text, NL)
    IN  IF parts[Len(parts)] = <<>> THEN SubSeq(parts, 1, Len(parts) - 1)
        ELSE parts

\* The orders in which a HashMap may iterate over the keys of S.
Orders(S) ==
    {o \in [1..Cardinality(S) -> S] : \A i, j \in 1..Cardinality(S) : o[i] = o[j] => i = j}

\* The text of the first n lines written for the keys in this order.
RECURSIVE Written(_, _, _)
Written(m, order, n) ==
    IF n = 0 THEN <<>>
    ELSE Written(m, order, n - 1) \o Line(order[n], m[order[n]].value)

\* A save that would open the file for appending: the lines follow what the
\* file held.
save_to_file_appends(m, f) ==
    {[file |-> f, ok |-> FALSE]}
    \cup {[file |-> Some((IF f = None THEN <<>> ELSE f[1]) \o Written(m, o, n)),
           ok |-> n = Len(o)] :
             o \in Orders(DOMAIN m), n \in 0..Cardinality(DOMAIN m)}

\* Cache::save_to_file: the outcomes.  The open may fail and leave the file
\* as it is; else the file is truncated and the lines are written in the
\* map's iteration order, and a write may fail after any number of lines.
save_to_file(m, f) ==
    {[file |-> f, ok |-> FALSE]}
    \cup {[file |-> Some(Written(m, o, n)), ok |-> n = Len(o)] :
             o \in Orders(DOMAIN m), n \in 0..Cardinality(DOMAIN m)}

\* The end of put: if let Some(filename) = &self.filename { let _ = save }
save_after_put(fname, m, f) ==
    IF fname = None THEN {[file |-> f, ok |-> TRUE]} ELSE save_to_file(m, f)

\* ------------------------------------------------------------ the history

\* seq without key.
Without(seq, key) == SelectSeq(seq, LAMBDA x : x # key)
\* key becomes the most recently accessed.
Touch(seq, key) == Append(Without(seq, key), key)
\* seq restricted to the keys of S.
Held(seq, S) == SelectSeq(seq, LAMBDA x : x \in S)
\* Whether key is the key of one of the pairs of seq.
Occurs(seq, key) == \E i \in 1..Len(seq) : seq[i][1] = key
\* The key -> value mapping of a map.
Mapping(m) == [k \in DOMAIN m |-> m[k].value]
\* Whether the text of a key has no field separator and no line end.
TextSafe(key) == \A i \in 1..Len(key) : key[i] # TAB /\ key[i] # NL
\* Whether a text has no line end.
OneLine(text) == \A i \in 1..Len(text) : text[i] # NL

\* The reference LRU: a sequence of at most cap <<key, value>> pairs from
\* the least to the most recently used.  A put drops the key's pair, drops the
\* oldest pair when cap pairs are left, and appends the new pair.
RefPut(r, cap, key, value) ==
    LET rest == SelectSeq(r, LAMBDA p : p[1] # key)
    IN  IF cap = 0 THEN <<>>
        ELSE Append(IF Len(rest) >= cap THEN Tail(rest) ELSE rest, <<key, value>>)
\* A get of a key the reference holds returns its value and makes its pair
\* the most recent; a get of another key returns None.
RefGet(r, key) ==
    IF \E i \in 1..Len(r) : r[i][1] = key
    THEN LET p == r[CHOOSE i \in 1..Len(r) : r[i][1] = key]
         IN  [ref |-> Append(SelectSeq(r, LAMBDA q : q[1] # key), p),
              ret |-> Some(p[2])]
    ELSE [ref |-> r, ret |-> None]
\* The keys of the reference, from the least to the most recently used.
RefKeys(r) == [i \in 1..Len(r) |-> r[i][1]]

\* The history after put(key, value) left the map m.
HistoryPut(h, m, key, value) ==
    [accessOrder |-> Held(Touch(h.accessOrder, key), DOMAIN m),
     lastPut |-> [k \in DOMAIN m \cap (DOMAIN h.lastPut \cup {key}) |->
                     IF k = key THEN value ELSE h.lastPut[k]]]

NoHistory == [accessOrder |-> <<>>, lastPut |-> <<>>]
NoPrior == [ok |-> FALSE, cap |-> 0, mapping |-> <<>>]
NoLife == [noFile |-> TRUE, savesOk |-> TRUE]
\* The run of a cache on which nothing was put yet.
NoRun == [insertsOnly |-> TRUE, evicted |-> {}]
\* What a new_persistent met: the file at the path, whether opening it was
\* refused, how many lines could be read, and of the puts it replayed their
\* number and whether the last one's save succeeded.
NoSource == [file |-> None, denied |-> FALSE, readable |-> 0, puts |-> 0,
             lastSaveOk |-> TRUE]
Op(op, key, val, ret, present, ok) ==
    [op |-> op, key |-> key, val |-> val, ret |-> ret, present |-> present,
     ok |-> ok]

\* ------------------------------------------------- construction with a file

\* A loop body that would take the first two fields of any line that has at
\* least two.
replay_line_first_two_fields(line, cap, st) ==
    LET parts == SplitOn(line, TAB)
        k == IF Len(parts) >= 2 THEN ParseKey(parts[1]) ELSE None
        v == IF Len(parts) >= 2 THEN ParseValue(parts[2]) ELSE None
    IN  IF k = None \/ v = None
        THEN {st}
        ELSE LET c == put(st.cache, cap, k[1], v[1])
             IN  {[cache |-> c,
                   file |-> out.file,
                   history |-> HistoryPut(st.history, c.map, k[1], v[1]),
                   ref |-> RefPut(st.ref, cap, k[1], v[1]),
                   insertsOnly |-> st.insertsOnly
                                      /\ ~contains_key(st.cache.map, k[1]),
                   puts |-> st.puts + 1,
                   savesOk |-> st.savesOk /\ out.ok,
                   lastSaveOk |-> out.ok,
                   ok |-> TRUE] : out \in save_to_file(c.map, st.file)}

\* The body of the loop of Cache::new_persistent for one line read: a line of
\* exactly two fields that parse is put (and the put saves), any other is
\* skipped.  Gives every outcome.
replay_line(line, cap, st) ==
    LET parts == SplitOn(line, TAB)
        k == IF Len(parts) = 2 THEN ParseKey(parts[1]) ELSE None
        v == IF Len(parts) = 2 THEN ParseValue(parts[2]) ELSE None
    IN  IF k = None \/ v = None
        THEN {st}
        ELSE LET c == put(st.cache, cap, k[1], v[1])
             IN  {[cache |-> c,
                   file |-> out.file,
                   history |-> HistoryPut(st.history, c.map, k[1], v[1]),
                   ref |-> RefPut(st.ref, cap, k[1], v[1]),
                   insertsOnly |-> st.insertsOnly
                                      /\ ~contains_key(st.cache.map, k[1]),
                   puts |-> st.puts + 1,
                   savesOk |-> st.savesOk /\ out.ok,
                   lastSaveOk |-> out.ok,
                   ok |-> TRUE] : out \in save_to_file(c.map, st.file)}

\* The loop of Cache::new_persistent over the lines read, from each of the
\* states sts.  A line that cannot be read (an I/O error, or bytes that are
\* no UTF-8) ends the construction with that error; `readable` is the number
\* of lines read before such an error.
\* The lines are those of the file as it was opened: the reader has the whole
\* of a small file in its buffer before the first put rewrites the file.
\* Gives every outcome [cache, file, history, ref, insertsOnly, puts, savesOk,
\* lastSaveOk, ok].
RECURSIVE replay(_, _, _, _)
replay(lines, cap, sts, readable) ==
    IF lines = <<>> THEN sts
    ELSE IF readable = 0 THEN {[st EXCEPT !.ok = FALSE] : st \in sts}
    ELSE replay(Tail(lines), cap,
                UNION {replay_line(Head(lines), cap, st) : st \in sts},
                readable - 1)

\* Cache::new_persistent(capacity, filename): the outcomes.  `if let Ok(file)
\* = File::open(filename)`: a file that cannot be opened, whether there is
\* none or the open is refused, is not loaded.
new_persistent(cap, f, denied, readable) ==
    LET st == [cache |-> [map |-> <<>>, head |-> None, tail |-> None],
               file |-> f, history |-> NoHistory, ref |-> <<>>,
               insertsOnly |-> TRUE, puts |-> 0,
               savesOk |-> TRUE,
               lastSaveOk |-> TRUE, ok |-> TRUE]
    IN  IF f = None \/ denied THEN {st}
        ELSE replay(Lines(f[1]), cap, {st}, readable)

\* The number of lines of the file at the path (0 when there is none).
LineCount(f) == IF f = None THEN 0 ELSE Len(Lines(f[1]))

\* ------------------------------------------------------------- the actions

\* Cache::new(capacity)
Init ==
    /\ live = TRUE
    /\ capacity \in Caps
    /\ map = <<>>
    /\ head = None
    /\ tail = None
    /\ filename = None
    /\ file = None
    /\ lastOp = Op("new", None, 0, None, FALSE, TRUE)
    /\ accessOrder = <<>>
    /\ lastPut = <<>>
    /\ fresh = TRUE
    /\ freshPuts = <<>>
    /\ nops = 0
    /\ life = NoLife
    /\ prior = NoPrior
    /\ ref = <<>>
    /\ run = NoRun
    /\ source = NoSource

\* A put that would undo its change of the cache when its save fails.
Put_undone_on_failed_save(key, value) ==
    LET c == put(cache, capacity, key, value)
        h == HistoryPut(history, c.map, key, value)
    IN  /\ \E out \in save_after_put(filename, c.map, file) :
              /\ map' = IF out.ok THEN c.map ELSE map
              /\ head' = IF out.ok THEN c.head ELSE head
              /\ tail' = IF out.ok THEN c.tail ELSE tail
              /\ file' = out.file
              /\ life' = [life EXCEPT !.savesOk = @ /\ out.ok]
              /\ lastOp' = Op("put", Some(key), value, None,
                              contains_key(map, key), out.ok)
              /\ accessOrder' = IF out.ok THEN h.accessOrder ELSE accessOrder
              /\ lastPut' = IF out.ok THEN h.lastPut ELSE lastPut
        /\ fresh' = (fresh /\ ~Occurs(freshPuts, key)
                           /\ Len(freshPuts) <= capacity)
        /\ freshPuts' = IF fresh' THEN Append(freshPuts, <<key, value>>) ELSE <<>>
        /\ prior' = NoPrior
        /\ ref' = RefPut(ref, capacity, key, value)
        /\ run' = [insertsOnly |-> run.insertsOnly /\ ~contains_key(map, key),
                   evicted |-> DOMAIN map \ DOMAIN map']
        /\ source' = NoSource
        /\ UNCHANGED <<live, capacity, filename>>

\* cache.put(key, value), with the save that ends it on a persistent cache.
Put(key, value) ==
    LET c == put(cache, capacity, key, value)
        h == HistoryPut(history, c.map, key, value)
    IN  /\ map' = c.map
        /\ head' = c.head
        /\ tail' = c.tail
        /\ \E out \in save_after_put(filename, c.map, file) :
              /\ file' = out.file
              /\ life' = [life EXCEPT !.savesOk = @ /\ out.ok]
              /\ lastOp' = Op("put", Some(key), value, None,
                              contains_key(map, key), out.ok)
        /\ accessOrder' = h.accessOrder
        /\ lastPut' = h.lastPut
        /\ fresh' = (fresh /\ ~Occurs(freshPuts, key)
                           /\ Len(freshPuts) <= capacity)
        /\ freshPuts' = IF fresh' THEN Append(freshPuts, <<key, value>>) ELSE <<>>
        /\ prior' = NoPrior
        /\ ref' = RefPut(ref, capacity, key, value)
        /\ run' = [insertsOnly |-> run.insertsOnly /\ ~contains_key(map, key),
                   evicted |-> DOMAIN map \ DOMAIN map']
        /\ source' = NoSource
        /\ UNCHANGED <<live, capacity, filename>>

\* cache.get(&key)
Get(key) ==
    LET r == get(cache, key)
    IN  /\ map' = r.cache.map
        /\ head' = r.cache.head
        /\ tail' = r.cache.tail
        /\ lastOp' = Op("get", Some(key), 0, r.ret, contains_key(map, key), TRUE)
        /\ accessOrder' = IF r.ret # None THEN Touch(accessOrder, key)
                          ELSE accessOrder
        /\ fresh' = FALSE
        /\ freshPuts' = <<>>
        /\ prior' = NoPrior
        /\ ref' = RefGet(ref, key).ref
        /\ run' = [run EXCEPT !.evicted = DOMAIN map \ DOMAIN map']
        /\ source' = NoSource
        /\ UNCHANGED <<live, capacity, filename, file, lastPut, life>>

\* One more call by the caller.
Call == nops < MaxOps /\ nops' = nops + 1

DoPut == Call /\ \E key \in Keys, value \in Vals : Put(key, value)
DoGet == Call /\ \E key \in Keys : Get(key)

Next == DoPut \/ DoGet

Spec == Init /\ [][Next]_vars

\* ------------------------------------------------------ the persistent cache

\* Before the first Cache::new_persistent: no cache, and no file at the path.
InitPersist ==
    /\ live = FALSE
    /\ capacity = 0
    /\ map = <<>>
    /\ head = None
    /\ tail = None
    /\ filename = None
    /\ file = None
    /\ lastOp = Op("none", None, 0, None, FALSE, TRUE)
    /\ accessOrder = <<>>
    /\ lastPut = <<>>
    /\ fresh = TRUE
    /\ freshPuts = <<>>
    /\ nops = 0
    /\ life = NoLife
    /\ prior = NoPrior
    /\ ref = <<>>
    /\ run = NoRun
    /\ source = NoSource

\* Cache::new_persistent(cap, path): Ok(cache), or Err and no cache.  With
\* `faulty`, the system may refuse to open a file that exists and may fail
\* to read a line; without, it opens and reads whatever is there.
Construct(faulty) ==
    /\ ~live
    /\ \E cap \in Caps, denied \in {FALSE, faulty /\ file # None},
          readable \in {n \in 0..LineCount(file) : faulty \/ n = LineCount(file)} :
          \E st \in new_persistent(cap, file, denied, readable) :
             /\ live' = st.ok
             /\ capacity' = IF st.ok THEN cap ELSE 0
             /\ map' = IF st.ok THEN st.cache.map ELSE <<>>
             /\ head' = IF st.ok THEN st.cache.head ELSE None
             /\ tail' = IF st.ok THEN st.cache.tail ELSE None
             /\ filename' = IF st.ok THEN Some("path") ELSE None
             /\ file' = st.file
             /\ lastOp' = Op("new_persistent", None, cap, None, FALSE, st.ok)
             /\ accessOrder' = IF st.ok THEN st.history.accessOrder ELSE <<>>
             /\ lastPut' = IF st.ok THEN st.history.lastPut ELSE <<>>
             /\ fresh' = (st.puts = 0)
             /\ freshPuts' = <<>>
             /\ life' = IF st.ok
                        THEN [noFile |-> file = None, savesOk |-> st.savesOk]
                        ELSE NoLife
             /\ source' = [file |-> file, denied |-> denied,
                           readable |-> readable, puts |-> st.puts,
                           lastSaveOk |-> st.lastSaveOk]
             /\ prior' = IF lastOp.op = "drop" THEN prior ELSE NoPrior
             /\ ref' = IF st.ok THEN st.ref ELSE <<>>
             /\ run' = [insertsOnly |-> st.ok => st.insertsOnly, evicted |-> {}]
             /\ UNCHANGED nops

\* new_persistent where opening and reading do not fail (saving may).
NewPersistent == Construct(FALSE)

\* One more call on the persistent cache.
PersistCall == live /\ nops < MaxPersistOps /\ nops' = nops + 1

PersistPut == PersistCall /\ \E key \in Keys, value \in Vals : Put(key, value)
PersistGet == PersistCall /\ \E key \in Keys : Get(key)

\* cache.save_to_file(path), called by the caller.
SaveToFile ==
    /\ PersistCall
    /\ \E out \in save_to_file(map, file) :
          /\ file' = out.file
          /\ life' = [life EXCEPT !.savesOk = @ /\ out.ok]
          /\ lastOp' = Op("save_to_file", None, 0, None, FALSE, out.ok)
    /\ prior' = NoPrior
    /\ run' = [run EXCEPT !.evicted = {}]
    /\ source' = NoSource
    /\ UNCHANGED <<live, capacity, map, head, tail, filename, accessOrder, ref,
                   lastPut, fresh, freshPuts>>

\* The cache goes out of scope (Cache has no Drop: nothing is written).
DropCache ==
    /\ live
    /\ live' = FALSE
    /\ map' = <<>>
    /\ head' = None
    /\ tail' = None
    /\ filename' = None
    /\ lastOp' = Op("drop", None, 0, None, FALSE, TRUE)
    /\ accessOrder' = <<>>
    /\ lastPut' = <<>>
    /\ fresh' = TRUE
    /\ freshPuts' = <<>>
    /\ life' = NoLife
    /\ prior' = [ok |-> life.noFile /\ life.savesOk /\ fresh
                        /\ Len(freshPuts) <= capacity,
                 cap |-> capacity,
                 mapping |-> Mapping(map)]
    /\ ref' = <<>>
    /\ run' = NoRun
    /\ source' = NoSource
    /\ UNCHANGED <<capacity, file, nops>>

NextPersist ==
    NewPersistent \/ PersistPut \/ PersistGet \/ SaveToFile \/ DropCache

SpecPersist == InitPersist /\ [][NextPersist]_vars

\* ------------------------------------------------- loading any file
\* Lines a file may hold: key<TAB>value for the keys whose text is safe and
\* the values, and one line of each malformed kind: a single field, a second
\* field that is no number, three fields.
MaxFileLines == 3
FileLines ==
    {k \o <<TAB>> \o Digits(v) : k \in {x \in Keys : TextSafe(x)}, v \in Vals}
    \cup {KeyOf(1), KeyOf(1) \o <<TAB>> \o KeyOf(2),
          KeyOf(1) \o <<TAB>> \o Digits(1) \o <<TAB>> \o Digits(1)}
\* The text of a file holding these lines.
RECURSIVE FileText(_)
FileText(ls) == IF ls = <<>> THEN <<>> ELSE Head(ls) \o <<NL>> \o FileText(Tail(ls))
Files ==
    {None} \cup {Some(FileText(ls)) :
                    ls \in UNION {[1..n -> FileLines] : n \in 0..MaxFileLines}}

\* Before any construction, with any file (or none) at the path.
InitLoad ==
    /\ live = FALSE
    /\ capacity = 0
    /\ map = <<>>
    /\ head = None
    /\ tail = None
    /\ filename = None
    /\ file \in Files
    /\ lastOp = Op("none", None, 0, None, FALSE, TRUE)
    /\ accessOrder = <<>>
    /\ lastPut = <<>>
    /\ fresh = TRUE
    /\ freshPuts = <<>>
    /\ nops = 0
    /\ life = NoLife
    /\ prior = NoPrior
    /\ ref = <<>>
    /\ run = NoRun
    /\ source = NoSource

\* The one new_persistent, under any behaviour of the file system.
Load == lastOp.op = "none" /\ Construct(TRUE)

NextLoad == Load

SpecLoad == InitLoad /\ [][NextLoad]_vars

\* ------------------------------------------------------------- the claims

Size == Cardinality(DOMAIN map)
\* The step being taken is a put of a key that is not in the map.
PutsNewKey == lastOp'.op = "put" /\ ~lastOp'.present
\* The step being taken is a put of a key that is in the map.
PutsHeldKey == lastOp'.op = "put" /\ lastOp'.present
\* The keys the step being taken removes from the map.
Removed == DOMAIN map \ DOMAIN map'

\* C1: after any sequence of put and get on a cache of capacity c >= 0, the
\* number of keys in the index is at most c.
C1_CapacityInvariant == Size <= capacity

\* C2: a put of a key that is not held, into a cache that holds exactly
\* capacity >= 1 keys, removes the held key whose last successful get or put
\* is the oldest, and only that key.
C2_LRUVictim ==
    [][(PutsNewKey /\ capacity >= 1 /\ Size = capacity)
          => Removed = {accessOrder[1]}]_vars

\* C3: in a full cache of capacity >= 2, a get(k) that returned a value
\* followed at once by a put of a new key does not evict k; it evicts the
\* least recently used of the other keys.
C3_PromotionOnRead ==
    [][(lastOp.op = "get" /\ lastOp.ret # None /\ PutsNewKey
          /\ capacity >= 2 /\ Size = capacity)
          => /\ lastOp.key[1] \in DOMAIN map'
             /\ Removed = {Without(accessOrder, lastOp.key[1])[1]}]_vars

\* C4: a put on a key already held replaces its value and leaves the number
\* of keys unchanged, and makes the key the most recently used: the next put
\* of a new key into the full cache (capacity >= 2) evicts another key.
C4_UpdateResetsRecency ==
    [][/\ PutsHeldKey
          => /\ DOMAIN map' = DOMAIN map
             /\ map'[lastOp'.key[1]].value = lastOp'.val
       /\ (lastOp.op = "put" /\ lastOp.present /\ PutsNewKey
             /\ capacity >= 2 /\ Size = capacity)
          => lastOp.key[1] \in DOMAIN map']_vars

\* C5: for every capacity c >= 1, after c + 1 pairwise distinct keys are put
\* into a new cache with no get in between, get on the first key returns none
\* and get on each of the others returns the value put.
C5_EvictionOnFreshCache ==
    (fresh /\ capacity >= 1 /\ Len(freshPuts) = capacity + 1)
        => /\ get(cache, freshPuts[1][1]).ret = None
           /\ \A i \in 2..(capacity + 1) :
                 get(cache, freshPuts[i][1]).ret = Some(freshPuts[i][2])
C5_Witness ==
    fresh /\ capacity = MaxCap /\ Len(freshPuts) = capacity + 1

\* C6: get(k) returns the value of the latest put(k, v) for as long as k is
\* held; with capacity >= 1 a get(k) right after put(k, v) returns v, whether
\* the put inserted or overwrote; a put leaves the value returned for every
\* other held key as it was.
C6_ReadYourWrite ==
    /\ \A k \in DOMAIN map :
          k \in DOMAIN lastPut /\ get(cache, k).ret = Some(lastPut[k])
    /\ (lastOp.op = "get" /\ lastOp.present)
          => lastOp.ret = Some(lastPut[lastOp.key[1]])
    /\ (lastOp.op = "put" /\ capacity >= 1)
          => get(cache, lastOp.key[1]).ret = Some(lastOp.val)
C6_Witness ==
    /\ lastOp.op = "put" /\ lastOp.present /\ capacity >= 1 /\ Size >= 2
    /\ \E k \in DOMAIN map : lastPut[k] # lastOp.val

\* C7: on a cache of capacity 0 the map holds no entry after any sequence of
\* puts, and every get returns none.
C7_ZeroCapacity ==
    capacity = 0 => (map = <<>> /\ (lastOp.op = "get" => lastOp.ret = None))

\* C8: a get on a key that is not held returns none and leaves the map (the
\* values and every prev/next link), head and tail as they were, so the key
\* the next eviction removes is the same.
C8_GetMissChangesNothing ==
    [][(lastOp'.op = "get" /\ ~lastOp'.present)
          => /\ lastOp'.ret = None
             /\ map' = map /\ head' = head /\ tail' = tail
             /\ remove_tail(cache)' = remove_tail(cache)]_vars
C8_Witness ==
    lastOp.op = "get" /\ ~lastOp.present /\ lastOp.ret = None /\ Size >= 2

\* C9: a get (hit or miss) and a put on a key already held remove no key:
\* the set of keys held is the same after the call.
C9_NoEvictionOnGetOrUpdate ==
    [][(lastOp'.op = "get" \/ PutsHeldKey) => DOMAIN map' = DOMAIN map]_vars
C9_Witness ==
    /\ lastOp.op = "put" /\ lastOp.present
    /\ capacity >= 1 /\ Size = capacity

\* The state right after a second new_persistent(N, path), when the first
\* new_persistent(N, path) found no file, M <= N pairwise distinct keys were
\* then put, each once, every save succeeded, and the cache was dropped; the
\* second new_persistent opened the file and read all of it.
RoundTripCase ==
    /\ lastOp.op = "new_persistent" /\ lastOp.ok /\ ~source.denied
    /\ prior.ok /\ capacity = prior.cap

EntryLines(m, order) ==
    [i \in 1..Len(order) |-> order[i] \o <<TAB>> \o Digits(m[order[i]].value)]
\* The state right after a put on a persistent cache whose save succeeded:
\* a put of the caller, or the last put replayed by new_persistent.
PutSaved ==
    /\ filename # None /\ lastOp.ok
    /\ \/ lastOp.op = "put"
       \/ lastOp.op = "new_persistent" /\ source.puts > 0 /\ source.lastSaveOk
\* The lines of the file are one key<TAB>value line per entry of the index,
\* in some order, and no other line.
FileMirrors ==
    /\ file # None
    /\ \E o \in Orders(DOMAIN map) : Lines(file[1]) = EntryLines(map, o)

\* C11 as stated: after a put whose save succeeded, the file holds exactly
\* one key<TAB>value line for each entry in the index and no other line.
C11_FileMirrorsAnyKey == PutSaved => FileMirrors

\* C11, amended: after a put on a persistent cache whose save succeeded (a
\* put of the caller or one replayed by new_persistent), when no key in the
\* index has a line end in its text, the file holds exactly one
\* key<TAB>value line for each entry in the index and no other line.
C11_FileMirrors ==
    (PutSaved /\ \A k \in DOMAIN map : OneLine(k)) => FileMirrors
C11_Witness ==
    /\ PutSaved /\ lastOp.op = "put" /\ ~life.noFile
    /\ \A k \in DOMAIN map : OneLine(k)
    /\ Size >= 2

\* Whether a line splits into exactly two tab-separated fields that parse
\* as a key and as a value.
WellFormed(line) ==
    /\ Len(SplitOn(line, TAB)) = 2
    /\ ParseKey(SplitOn(line, TAB)[1]) # None
    /\ ParseValue(SplitOn(line, TAB)[2]) # None
\* The <<key, value>> pairs of the well-formed lines among these, in order.
RECURSIVE WellFormedPairs(_)
WellFormedPairs(lines) ==
    IF lines = <<>> THEN <<>>
    ELSE (IF WellFormed(Head(lines))
          THEN <<<<ParseKey(SplitOn(Head(lines), TAB)[1])[1],
                   ParseValue(SplitOn(Head(lines), TAB)[2])[1]>>>>
          ELSE <<>>) \o WellFormedPairs(Tail(lines))
\* The cache after these pairs are put, in order, into c.
RECURSIVE PutAll(_, _, _)
PutAll(pairs, cap, c) ==
    IF pairs = <<>> THEN c
    ELSE PutAll(Tail(pairs), cap, put(c, cap, Head(pairs)[1], Head(pairs)[2]))
EmptyCache == [map |-> <<>>, head |-> None, tail |-> None]
\* The state right after a new_persistent that opened the file at the path
\* and met no error reading it.
Loaded ==
    /\ lastOp.op = "new_persistent"
    /\ source.file # None /\ ~source.denied
    /\ source.readable = LineCount(source.file)
SourceLines == Lines(source.file[1])

C13_BestEffortPersistence ==
    [][(lastOp'.op = "put" /\ filename # None /\ ~lastOp'.ok)
          => /\ live'
             /\ cache' = put(cache, capacity, lastOp'.key[1], lastOp'.val)
             /\ filename' = filename]_vars
\* A put whose save succeeded after a put of the same cache whose save failed.
C13_Witness ==
    /\ lastOp.op = "put" /\ lastOp.ok
    /\ life.noFile /\ ~life.savesOk
    /\ FileMirrors /\ Size = 2

\* C14: new_persistent returns Ok with an empty cache when there is no file
\* at the path, and returns an error when the system refuses to open the
\* file that is there or when reading a line fails.
C14_ConstructionErrors ==
    lastOp.op = "new_persistent" =>
        /\ source.file = None => (lastOp.ok /\ live /\ map = <<>>)
        /\ source.denied => ~lastOp.ok
        /\ (source.file # None /\ ~source.denied
               /\ source.readable < LineCount(source.file)) => ~lastOp.ok

\* The keys met by walking the links of m from the key `at`, by next or by
\* prev, for at most `fuel` steps: the walk ends at None and at a key that is
\* not in m.
RECURSIVE Walk(_, _, _, _)
Walk(m, at, byNext, fuel) ==
    IF at = None \/ fuel = 0 THEN <<>>
    ELSE IF at[1] \notin DOMAIN m THEN <<at[1]>>
    ELSE <<at[1]>> \o Walk(m, IF byNext THEN m[at[1]].next ELSE m[at[1]].prev,
                           byNext, fuel - 1)
\* The list of c from head along next, and from tail along prev; a walk
\* longer than the index is cut one key after its size.
FromHead(c) == Walk(c.map, c.head, TRUE, Cardinality(DOMAIN c.map) + 1)
FromTail(c) == Walk(c.map, c.tail, FALSE, Cardinality(DOMAIN c.map) + 1)
\* The keys of these pairs, each once, in the order of their last occurrences.
RECURSIVE LastOccurrences(_)
LastOccurrences(pairs) ==
    IF pairs = <<>> THEN <<>>
    ELSE Touch(LastOccurrences(SubSeq(pairs, 1, Len(pairs) - 1)),
               pairs[Len(pairs)][1])
\* The value of the last of these pairs that has this key.
LastValue(pairs, key) ==
    pairs[CHOOSE i \in 1..Len(pairs) :
             /\ pairs[i][1] = key
             /\ \A j \in (i + 1)..Len(pairs) : pairs[j][1] # key][2]
\* The last n elements of seq (all of it when it has fewer).
LastN(seq, n) ==
    IF Len(seq) <= n THEN seq ELSE SubSeq(seq, Len(seq) - n + 1, Len(seq))
\* What C15 expects of the keys held, of their values and of their order.
LoadedKeys == LastN(LastOccurrences(WellFormedPairs(SourceLines)), capacity)
LoadHoldsLastKeys ==
    DOMAIN map = {LoadedKeys[i] : i \in 1..Len(LoadedKeys)}
LoadHoldsLastValues ==
    \A k \in DOMAIN map :
       Occurs(WellFormedPairs(SourceLines), k)
          => map[k].value = LastValue(WellFormedPairs(SourceLines), k)
LoadKeepsFileOrder == FromTail(cache) = LoadedKeys

\* C15: after new_persistent(c, path) with c >= 1 has loaded a file, the
\* cache holds exactly the last c distinct keys of the file's well-formed
\* lines, each with the value of its last line, and its list from the least
\* to the most recent key is those keys in the order of their last
\* occurrences in the file.
C15_LoadReplay ==
    (Loaded /\ lastOp.ok /\ capacity >= 1)
        => (LoadHoldsLastKeys /\ LoadHoldsLastValues /\ LoadKeepsFileOrder)

\* The set of the elements of a sequence.
Range(seq) == {seq[i] : i \in 1..Len(seq)}

\* C16: the keys met by walking the list from head along next are exactly
\* the keys of the index; head and tail are None exactly when the index is
\* empty, and else each names a key of the index.
C16_IndexAndListAgree ==
    /\ Range(FromHead(cache)) = DOMAIN map
    /\ (head = None) <=> (map = <<>>)
    /\ (tail = None) <=> (map = <<>>)
    /\ head # None => head[1] \in DOMAIN map
    /\ tail # None => tail[1] \in DOMAIN map

\* C17: after a put(k, _) and after a get(k) that returns a value, head is
\* k; a get that misses leaves head as it is, so head stays the key of the
\* last put or successful get.
C17_HeadTracksLastAccess ==
    [][/\ lastOp'.op = "put" => head' = lastOp'.key
       /\ (lastOp'.op = "get" /\ lastOp'.ret # None) => head' = lastOp'.key
       /\ (lastOp'.op = "get" /\ lastOp'.ret = None) => head' = head]_vars
\* A get has just returned the value of a key, among two held, that has
\* another key after it in the list.
C17_Witness ==
    /\ lastOp.op = "get" /\ lastOp.ret # None
    /\ Size = 2
    /\ head = lastOp.key
    /\ map[head[1]].next \notin {None, head}

\* C18: a put of a key that is not held, when exactly capacity >= 1 keys are
\* held, removes exactly one held key, so that the size is capacity before
\* and after; a put of a key that is not held, when fewer than capacity keys
\* are held, removes none and the size grows by one.
C18_OneEvictionPerOverflow ==
    [][/\ (PutsNewKey /\ capacity >= 1 /\ Size = capacity)
             => (Cardinality(Removed) = 1 /\ Size' = capacity)
       /\ (PutsNewKey /\ Size < capacity)
             => (Removed = {} /\ Size' = Size + 1)]_vars

\* C19: at capacity >= 1, every get returns what the reference LRU returns
\* for it, and after every put and get the list walked from tail to head is
\* the reference's sequence of keys from the least to the most recently used.
C19_MatchesReference ==
    [][capacity >= 1 =>
          /\ lastOp'.op = "get" => lastOp'.ret = RefGet(ref, lastOp'.key[1]).ret
          /\ FromTail(cache') = RefKeys(ref')]_vars

\* C20: the list is a well-formed doubly-linked list: the next and prev of
\* every key of the index name keys of the index that link back to it, head
\* is the only key with prev = None and tail the only key with next = None,
\* and following next from head visits every key of the index once and ends
\* at tail after |index| - 1 steps.
C20_WellFormedList ==
    /\ \A k \in DOMAIN map :
          /\ map[k].next # None =>
                /\ map[k].next[1] \in DOMAIN map
                /\ map[map[k].next[1]].prev = Some(k)
          /\ map[k].prev # None =>
                /\ map[k].prev[1] \in DOMAIN map
                /\ map[map[k].prev[1]].next = Some(k)
          /\ (map[k].prev = None) <=> (head = Some(k))
          /\ (map[k].next = None) <=> (tail = Some(k))
    /\ map # <<>> =>
          /\ Len(FromHead(cache)) = Size
          /\ Range(FromHead(cache)) = DOMAIN map
          /\ tail = Some(FromHead(cache)[Size])

\* C21: at capacity >= 1, for as long as every put is of a key that is not
\* held when it is put, the cache matches the reference LRU: at most capacity
\* keys are held, the list walked from tail to head is the held keys in the
\* order of their last access, which is the reference's sequence, every get
\* returns what the reference returns, and a call that removes a key removes
\* the least recently accessed one and no other.
C21_InsertsOnlyMatchReference ==
    [][(capacity >= 1 /\ run'.insertsOnly) =>
          /\ Size' <= capacity
          /\ FromTail(cache') = accessOrder'
          /\ FromTail(cache') = RefKeys(ref')
          /\ Mapping(map') = [k \in Range(RefKeys(ref')) |-> RefGet(ref', k).ret[1]]
          /\ lastOp'.op = "get" => lastOp'.ret = RefGet(ref, lastOp'.key[1]).ret
          /\ Removed # {} => Removed = {accessOrder[1]}]_vars
\* The last of MaxOps calls, a put of a key not held, has just evicted a key
\* from a full cache of two keys, in a run of inserts only that is more than
\* the first capacity + 1 puts of distinct keys.
C21_Witness ==
    /\ run.insertsOnly /\ run.evicted # {}
    /\ capacity = 2 /\ Size = 2
    /\ lastOp.op = "put"
    /\ nops = MaxOps
    /\ ~fresh

====
